---- MODULE Spec2Model ----
(***************************************************************************)
(* Model of the EveryVoice configuration wizard engine                     *)
(* (everyvoice/wizard/__init__.py): Step, RootStep and Tour.               *)
(*                                                                         *)
(* A Step object is a record of its fields; the State (an EnumDict) is a   *)
(* heap of scopes, scope 1 being tour.state and the others the sub-scopes  *)
(* created by determine_state.  Tour.run() is a sequential loop whose only *)
(* suspension points are the prompts (a step's prompt and the recovery     *)
(* menu): one action per answer, interrupt or menu choice.                 *)
(***************************************************************************)
EXTENDS Integers, Sequences, FiniteSets, TLC

(* ------------------------------------------------------------------ *)
(* Bounds                                                              *)
(* ------------------------------------------------------------------ *)
\* The largest number of Step objects (the root included) a tour may hold.
MaxSteps == 7

(* ------------------------------------------------------------------ *)
(* Values                                                              *)
(* ------------------------------------------------------------------ *)
\* Python's None for a response, a state_subset or a menu action.
None == "None"
\* Step objects are numbered from 1 in their order of creation; the root is
\* the first.  NoStep is None for a reference to a step.
Root == 1
NoStep == 0
\* The answers a prompt may return.
Answers == {"yes", "no", "bad"}

\* The home directory os.path.expanduser puts in the place of "~".
HomeDir == "/home/user"

\* What a prompt may return when the answer is typed: also an answer with
\* surrounding whitespace and a path starting with "~".
RawAnswers == Answers \cup {" yes ", "~"}
\* The indices get_response_from_menu_prompt may return (five choices).
MenuChoices == 0 .. 4
\* A State value is an answer or a reference to a nested State (sub-scope).
Val(a) == [ans |-> a, ref |-> 0]
Ref(i) == [ans |-> None, ref |-> i]
\* State is EnumDict, a dict: State() is the empty mapping.
EmptyState == <<>>

\* No tree was rendered: no highlight and no line.
NoPanel == [highlight |-> NoStep, lines |-> <<>>]

(* ------------------------------------------------------------------ *)
(* The step classes used by the tours (kind 0 is RootStep)             *)
(* ------------------------------------------------------------------ *)
RootKind == 0
Kinds == 0 .. 16

\* step.name (values of StepNames)
Name(k) ==
  CASE k = 0 -> "Root"
    [] k = 1 -> "Name Step"
    [] k = 2 -> "Contact Name Step"
    [] k = 3 -> "Contact Email Step"
    [] k = 4 -> "More Datasets Step"
    [] k = 5 -> "Wavs Dir Step"
    [] k = 6 -> "Filelist Step"
    [] k = 7 -> "Output Path Step"
    [] k = 8 -> "Validate Wavs Step"
    [] k = 9 -> "Filelist Format Step"
    [] k = 10 -> "Dummy Step"
    [] k = 11 -> "Dummy Step"
    [] k = 12 -> "Wavs Dir Step"
    [] k = 13 -> "Data Has Speaker Step"
    [] k = 14 -> "Speaker Header Step"
    [] k = 15 -> "Know Speaker Step"
    [] k = 16 -> "Add Speaker Step"

\* step.state_subset
Subset(k) ==
  IF k \in {5, 6} THEN "dataset_0"
  ELSE IF k = 12 THEN "dataset_1"
  ELSE None

\* The answers the class's validate() accepts.
Valid(k) ==
  CASE k = 1 -> {"yes", "no"}
    [] k = 2 -> RawAnswers
    [] k = 7 -> Answers \cup {HomeDir}
    [] k = 8 -> {}
    [] k = 15 -> {"yes", "no"}
    [] OTHER -> Answers

\* The class implements prompt(); _Step.prompt raises NotImplementedError.
HasPrompt(k) == k # 10

\* The class implements validate(); _Step.validate raises NotImplementedError.
HasValidate(k) == k # 11

\* An item of a list of steps: a step, or a sublist [head, rest...].
StepItem(k) == [isList |-> FALSE, head |-> k, rest |-> <<>>]
ListItem(k, r) == [isList |-> TRUE, head |-> k, rest |-> r]

\* The steps the class's effect() hands to tour.add_steps(..., self).
Effect(k, a) ==
  IF k = 4 /\ a = "yes" THEN <<StepItem(5), StepItem(6)>>
  ELSE IF k = 13 /\ a = "yes" THEN <<StepItem(14)>>
  ELSE IF k = 15 /\ a = "yes" THEN <<StepItem(16)>>
  ELSE <<>>

\* The class's effect() fails on the answer a (a collaborator's failure, such
\* as a file it cannot read).
EffectRaises(k, a) == k = 9 /\ a = "no"

(* ------------------------------------------------------------------ *)
(* Step                                                                *)
(* ------------------------------------------------------------------ *)
\* Step.__init__: a fresh, unattached step of class k.  failures is
\* _validation_failures; streak is a history field the code does not have:
\* the rejected answers of the step since its last accepted answer.
NewStep(k) ==
  [kind |-> k, response |-> None, completed |-> FALSE, parent |-> NoStep,
   children |-> <<>>, state |-> 0, tour |-> FALSE, failures |-> 0,
   streak |-> 0]

\* The class's sanitize_input calls sanitize_paths (OutputPathStep).
IsPath(k) == k = 7

\* response.strip()
strip(a) == IF a = " yes " THEN "yes" ELSE a

\* os.path.expanduser(response)
expanduser(a) == IF a = "~" THEN HomeDir ELSE a

\* _Step.sanitize_paths
sanitize_paths(a) == expanduser(strip(a))

\* _Step.sanitize_input: the identity, unless the class overrides it.
sanitize_input(k, a) == IF IsPath(k) THEN sanitize_paths(a) ELSE a

\* The ceiling of Step.run's failure counter.
MaxValidationFailures == 20

\* validate(response)
validate(k, a) == a \in Valid(k)

\* (mutant) every class is reversible, RootStep too.
is_reversible_always(k) == TRUE

\* is_reversible(): False in Step and RootStep, True in the reversible classes.
is_reversible(k) == k \in {1, 2, 3, 5, 12, 13, 14}

\* self._validation_failures > 20
TooManyFailures(f) == f > MaxValidationFailures

(* ------------------------------------------------------------------ *)
(* NodeMixinWithNavigation (wizard/utils.py): pre-order navigation     *)
(* over the current shape of the tree.  S is the sequence of the Step   *)
(* objects.                                                            *)
(* ------------------------------------------------------------------ *)
\* The position of n in the children of its parent.
IndexIn(seq, n) == CHOOSE i \in 1 .. Len(seq) : seq[i] = n

RECURSIVE next_sibling_upwards(_, _)
\* The next sibling of the nearest ancestor-or-self that has one, else None.
next_sibling_upwards(S, n) ==
  IF S[n].parent = NoStep THEN NoStep
  ELSE LET sibs == S[S[n].parent].children
           i == IndexIn(sibs, n)
       IN IF i < Len(sibs) THEN sibs[i + 1]
          ELSE next_sibling_upwards(S, S[n].parent)

\* next(): the first child if any, else the next sibling upwards, else None.
next(S, n) ==
  IF S[n].children # <<>> THEN S[n].children[1]
  ELSE next_sibling_upwards(S, n)

RECURSIVE last_descendant(_, _)
\* The last node of the subtree of n in pre-order.
last_descendant(S, n) ==
  IF S[n].children = <<>> THEN n
  ELSE last_descendant(S, S[n].children[Len(S[n].children)])

\* prev(): the node before n in pre-order, None for the root.
prev(S, n) ==
  IF S[n].parent = NoStep THEN NoStep
  ELSE LET sibs == S[S[n].parent].children
           i == IndexIn(sibs, n)
       IN IF i = 1 THEN S[n].parent ELSE last_descendant(S, sibs[i - 1])

(* ------------------------------------------------------------------ *)
(* Tour: binding steps to State scopes and inserting them in the tree. *)
(* W is a record [step, state, exc, out]: the Step objects, the heap of *)
(* State scopes (state[1] being tour.state), the exception raised, if  *)
(* any, and the message printed, if any.                               *)
(* ------------------------------------------------------------------ *)
\* The id of the Step object created last.
Newest(W) == Len(W.step)

\* (mutant) a step with a state_subset always gets a new sub-scope.
determine_state_fresh(W, s) ==
  LET k == W.step[s].kind
      sub == Subset(k)
  IN IF sub # None
     THEN LET W1 == [W EXCEPT !.state =
                       Append([@ EXCEPT ![1] = (sub :> Ref(Len(W.state) + 1)) @@ @],
                              EmptyState)]
          IN [W1 EXCEPT !.step[s].state = Len(W1.state)]
     ELSE [W EXCEPT !.step[s].state = 1]

\* (mutant) the sub-scope a step is bound to is emptied when it exists.
determine_state_wiping(W, s) ==
  LET k == W.step[s].kind
      sub == Subset(k)
  IN IF sub # None
     THEN LET W1 == IF sub \notin DOMAIN W.state[1]
                    THEN [W EXCEPT !.state =
                            Append([@ EXCEPT ![1] = (sub :> Ref(Len(W.state) + 1)) @@ @],
                                   EmptyState)]
                    ELSE [W EXCEPT !.state[W.state[1][sub].ref] = EmptyState]
          IN [W1 EXCEPT !.step[s].state = W1.state[1][sub].ref]
     ELSE [W EXCEPT !.step[s].state = 1]

\* (mutant) every step is bound to the top-level State.
determine_state_toplevel(W, s) == [W EXCEPT !.step[s].state = 1]

\* Tour.determine_state(step, self.state)
determine_state(W, s) ==
  LET k == W.step[s].kind
      sub == Subset(k)
  IN IF sub # None
     THEN LET W1 == IF sub \notin DOMAIN W.state[1]
                    THEN [W EXCEPT !.state =
                            Append([@ EXCEPT ![1] = (sub :> Ref(Len(W.state) + 1)) @@ @],
                                   EmptyState)]
                    ELSE W
          IN [W1 EXCEPT !.step[s].state = W1.state[1][sub].ref]
     ELSE [W EXCEPT !.step[s].state = 1]

\* (mutant) the new step becomes the last child of its parent.
add_step_at_end(W, k, p) ==
  LET s == Len(W.step) + 1
      W1 == determine_state([W EXCEPT !.step = Append(@, NewStep(k))], s)
  IN [W1 EXCEPT !.step[s].tour = TRUE,
                !.step[s].parent = p,
                !.step[p].children = @ \o <<s>>]

\* (mutant) the new step replaces the children its parent had.
add_step_alone(W, k, p) ==
  LET s == Len(W.step) + 1
      W1 == determine_state([W EXCEPT !.step = Append(@, NewStep(k))], s)
  IN [W1 EXCEPT !.step[s].tour = TRUE,
                !.step[s].parent = p,
                !.step[p].children = <<s>>]

\* Tour.add_step(step, parent), step being a new object of class k.
add_step(W, k, p) ==
  LET s == Len(W.step) + 1
      W1 == determine_state([W EXCEPT !.step = Append(@, NewStep(k))], s)
  IN [W1 EXCEPT !.step[s].tour = TRUE,
                !.step[s].parent = p,
                !.step[p].children = <<s>> \o @]

RECURSIVE add_steps_forward(_, _, _)
\* (mutant) the items are inserted first first.
add_steps_forward(W, items, p) ==
  IF items = <<>> THEN W
  ELSE LET item == items[1]
           W1 == add_step(W, item.head, p)
           W2 == IF item.isList THEN add_steps_forward(W1, item.rest, Newest(W1))
                 ELSE W1
       IN add_steps_forward(W2, Tail(items), p)

RECURSIVE add_steps_flat(_, _, _)
\* (mutant) the rest of a sublist is added under the parent, not the head.
add_steps_flat(W, items, p) ==
  IF items = <<>> THEN W
  ELSE LET item == items[Len(items)]
           W1 == add_step(W, item.head, p)
           W2 == IF item.isList THEN add_steps_flat(W1, item.rest, p) ELSE W1
       IN add_steps_flat(W2, SubSeq(items, 1, Len(items) - 1), p)

RECURSIVE add_steps(_, _, _)
\* Tour.add_steps(steps, parent): the items are inserted last first.
add_steps(W, items, p) ==
  IF items = <<>> THEN W
  ELSE LET item == items[Len(items)]
           W1 == add_step(W, item.head, p)
           W2 == IF item.isList THEN add_steps(W1, item.rest, Newest(W1)) ELSE W1
       IN add_steps(W2, SubSeq(items, 1, Len(items) - 1), p)

\* Tour.__init__(name, steps): a new State, the root, then the steps.
NewTour(items) ==
  LET W0 == [step |-> <<NewStep(RootKind)>>, state |-> <<EmptyState>>, exc |-> None,
             out |-> None, panel |-> NoPanel]
      W1 == [W0 EXCEPT !.step[1].tour = TRUE]
  IN add_steps(determine_state(W1, Root), items, Root)

\* Tour.__init__(name, steps, state): the tour is given the State st.
NewTourIn(items, st) ==
  LET W0 == [step |-> <<NewStep(RootKind)>>, state |-> st, exc |-> None,
             out |-> None, panel |-> NoPanel]
      W1 == [W0 EXCEPT !.step[1].tour = TRUE]
  IN add_steps(determine_state(W1, Root), items, Root)

(* ------------------------------------------------------------------ *)
(* Step.run() and Step.undo()                                          *)
(* ------------------------------------------------------------------ *)
\* The step's name in the scope st of the heap h.
HasKey(h, st, key) == key \in DOMAIN h[st]

\* self.state[self.name] = self.response
SetItem(h, st, key, v) == [h EXCEPT ![st] = (key :> v) @@ @]

\* del self.state[self.name]
DelItem(h, st, key) == [h EXCEPT ![st] = [x \in DOMAIN @ \ {key} |-> @[x]]]

\* (mutant) the answer is stored under the name of the step's parent.
commit_parent_name(W, s, r) ==
  LET W1 == [W EXCEPT !.step[s].completed = TRUE, !.step[s].streak = 0]
      key == Name(W1.step[W1.step[s].parent].kind)
  IN IF W1.step[s].state # 0
     THEN [W1 EXCEPT !.state = SetItem(@, W1.step[s].state, key, Val(r))]
     ELSE W1

\* (mutant) the step is marked completed but nothing is written to State.
commit_without_store(W, s, r) ==
  [W EXCEPT !.step[s].completed = TRUE, !.step[s].streak = 0]

\* (mutant) the answer is always written to the top-level State.
commit_toplevel(W, s, r) ==
  LET W1 == [W EXCEPT !.step[s].completed = TRUE, !.step[s].streak = 0]
  IN [W1 EXCEPT !.state = SetItem(@, 1, Name(W1.step[s].kind), Val(r))]

\* Step.run(), lines 110-114: the answer r passed validate.
commit(W, s, r) ==
  LET W1 == [W EXCEPT !.step[s].completed = TRUE, !.step[s].streak = 0]
  IN IF W1.step[s].state # 0
     THEN [W1 EXCEPT !.state = SetItem(@, W1.step[s].state, Name(W1.step[s].kind), Val(r))]
     ELSE W1

\* self.effect(): the classes with an effect add steps under the step, or
\* fail.
effect(W, s) ==
  IF EffectRaises(W.step[s].kind, W.step[s].response)
  THEN [W EXCEPT !.exc = "OSError"]
  ELSE add_steps(W, Effect(W.step[s].kind, W.step[s].response), s)

\* The messages of rich_print.
GivingUp == "giving up after 20 validation failures"
CannotBeUndone == "cannot be undone, continuing"
KeyboardInterrupt == "Keyboard Interrupt"
Panel == "Panel"

\* Step.run(), lines 118-123: the answer failed validate.
reject(W, s) ==
  LET W1 == [W EXCEPT !.step[s].failures = @ + 1, !.step[s].streak = @ + 1]
  IN IF TooManyFailures(W1.step[s].failures)
     THEN [W1 EXCEPT !.exc = "SystemExit", !.out = GivingUp]
     ELSE W1

\* (mutant) the raw answer is validated, stored and committed.
run_raw(W, s, a) ==
  LET k == W.step[s].kind
      W1 == [W EXCEPT !.step[s].response = a]
  IN IF ~HasValidate(k) THEN [W1 EXCEPT !.exc = "NotImplementedError"]
     ELSE IF validate(k, a) THEN effect(commit(W1, s, a), s)
     ELSE reject(W1, s)

\* (mutant) a missing validate() counts as a rejected answer.
run_missing_validate_rejects(W, s, a) ==
  LET k == W.step[s].kind
      r == sanitize_input(k, a)
      W1 == [W EXCEPT !.step[s].response = r]
  IN IF HasValidate(k) /\ validate(k, r) THEN effect(commit(W1, s, r), s)
     ELSE reject(W1, s)

\* (mutant) the effect runs once more when rejected answers preceded the
\* accepted one, as if every pending run() ran it on its way out.
run_effect_unwinding(W, s, a) ==
  LET k == W.step[s].kind
      r == sanitize_input(k, a)
      W1 == [W EXCEPT !.step[s].response = r]
  IN IF ~HasValidate(k) THEN [W1 EXCEPT !.exc = "NotImplementedError"]
     ELSE IF validate(k, r)
          THEN IF W.step[s].streak > 0
               THEN effect(effect(commit(W1, s, r), s), s)
               ELSE effect(commit(W1, s, r), s)
     ELSE reject(W1, s)

\* (mutant) the effect runs before the answer is committed.
run_effect_first(W, s, a) ==
  LET k == W.step[s].kind
      r == sanitize_input(k, a)
      W1 == [W EXCEPT !.step[s].response = r]
      W2 == effect(W1, s)
  IN IF ~HasValidate(k) THEN [W1 EXCEPT !.exc = "NotImplementedError"]
     ELSE IF validate(k, r)
          THEN IF W2.exc # None THEN W2 ELSE commit(W2, s, r)
     ELSE reject(W1, s)

\* (mutant) the answer is written to State before it is validated.
run_commit_first(W, s, a) ==
  LET k == W.step[s].kind
      r == sanitize_input(k, a)
      W1 == [W EXCEPT !.step[s].response = r,
                      !.state = SetItem(@, W.step[s].state, Name(k), Val(r))]
  IN IF ~HasValidate(k) THEN [W1 EXCEPT !.exc = "NotImplementedError"]
     ELSE IF validate(k, r) THEN effect(commit(W1, s, r), s)
     ELSE reject(W1, s)

\* Step.run() up to its next prompt, the prompt returning the answer a.
run(W, s, a) ==
  LET k == W.step[s].kind
      r == sanitize_input(k, a)
      W1 == [W EXCEPT !.step[s].response = r]
  IN IF ~HasValidate(k) THEN [W1 EXCEPT !.exc = "NotImplementedError"]
     ELSE IF validate(k, r) THEN effect(commit(W1, s, r), s)
     ELSE reject(W1, s)

\* (mutant) Step.run() takes the interrupt of its prompt for a rejected
\* answer.
run_interrupted_rejects(W, s) == reject(W, s)

\* Step.run(), its prompt raising KeyboardInterrupt: line 105 raises before
\* the assignment and run() has no handler.
run_interrupted(W, s) == [W EXCEPT !.exc = "KeyboardInterrupt"]

\* Step.run() of a class without prompt(): line 105 raises.
run_without_prompt(W, s) == [W EXCEPT !.exc = "NotImplementedError"]

\* (mutant) undo empties the step's whole scope.
undo_clear(W, s) ==
  LET W1 == [W EXCEPT !.step[s].response = None, !.step[s].completed = FALSE]
  IN [W1 EXCEPT !.state[W1.step[s].state] = EmptyState]

\* (mutant) the step stays completed.
undo_keeps_completed(W, s) ==
  LET W1 == [W EXCEPT !.step[s].response = None]
      st == W1.step[s].state
      key == Name(W1.step[s].kind)
  IN IF st # 0
     THEN IF HasKey(W1.state, st, key)
          THEN [W1 EXCEPT !.state = DelItem(@, st, key)]
          ELSE [W1 EXCEPT !.exc = "KeyError"]
     ELSE W1

\* (mutant) the entry of the step stays in State.
undo_keeps_entry(W, s) ==
  [W EXCEPT !.step[s].response = None, !.step[s].completed = FALSE]

\* Step.undo()
undo(W, s) ==
  LET W1 == [W EXCEPT !.step[s].response = None, !.step[s].completed = FALSE]
      st == W1.step[s].state
      key == Name(W1.step[s].kind)
  IN IF st # 0
     THEN IF HasKey(W1.state, st, key)
          THEN [W1 EXCEPT !.state = DelItem(@, st, key)]
          ELSE [W1 EXCEPT !.exc = "KeyError"]
     ELSE W1

\* The class overrides undo() to take back what its effect() added to the
\* tree, as is_reversible() asks of a reversible class whose undoing needs
\* more than Step.undo().
OverridesUndo(k) == k = 13

\* self.children = (): the children leave the tree.
drop_children(W, s) ==
  [W EXCEPT !.step =
     [i \in DOMAIN W.step |->
        IF i = s THEN [W.step[i] EXCEPT !.children = <<>>]
        ELSE IF W.step[i].parent = s THEN [W.step[i] EXCEPT !.parent = NoStep]
        ELSE W.step[i]]]

\* (mutant) every class inherits Step.undo().
class_undo_inherited(W, s) == undo(W, s)

\* prev.undo(), dispatched on the class of the step.
class_undo(W, s) ==
  IF OverridesUndo(W.step[s].kind) THEN undo(drop_children(W, s), s)
  ELSE undo(W, s)

(* ------------------------------------------------------------------ *)
(* Tour.keyboard_interrupt_action                                      *)
(* ------------------------------------------------------------------ *)
\* action = None
NoAction == -1
\* for _ in range(2)
MenuTries == 2

\* Tour.visualize(highlight): prints the tree in a Panel.
\* display(pre, name): the name without " Step", "Representation" shortened
\* and the root called "Wizard Steps" (the prefix pre is the depth of Line).
display(k) ==
  CASE k = 0 -> "Wizard Steps"
    [] k = 1 -> "Name"
    [] k = 2 -> "Contact Name"
    [] k = 3 -> "Contact Email"
    [] k = 4 -> "More Datasets"
    [] k = 5 -> "Wavs Dir"
    [] k = 6 -> "Filelist"
    [] k = 7 -> "Output Path"
    [] k = 8 -> "Validate Wavs"
    [] k = 9 -> "Filelist Format"
    [] k = 10 -> "Dummy"
    [] k = 11 -> "Dummy"
    [] k = 12 -> "Wavs Dir"
    [] k = 13 -> "Data Has Speaker"
    [] k = 14 -> "Speaker Header"
    [] k = 15 -> "Know Speaker"
    [] k = 16 -> "Add Speaker"

RECURSIVE Depth(_, _)
\* The depth of n in the tree, which RenderTree draws as the prefix.
Depth(S, n) == IF S[n].parent = NoStep THEN 0 ELSE 1 + Depth(S, S[n].parent)

RECURSIVE PreOrder(_, _)
RECURSIVE PreOrderAll(_, _)
\* RenderTree(n): the nodes of the subtree of n in pre-order.
PreOrder(S, n) == <<n>> \o PreOrderAll(S, S[n].children)

\* The subtrees of the nodes of ns in pre-order, one after the other.
PreOrderAll(S, ns) ==
  IF ns = <<>> THEN <<>>
  ELSE PreOrder(S, ns[1]) \o PreOrderAll(S, Tail(ns))

\* (mutant) the response of an answered node is shown with or without a
\* highlight.
Line_response_always(S, n, highlight) ==
  LET plain == [node |-> n, depth |-> Depth(S, n), label |-> display(S[n].kind),
                colour |-> None, arrow |-> FALSE, text |-> None]
  IN IF highlight # NoStep /\ n = highlight
     THEN [plain EXCEPT !.colour = "yellow", !.arrow = TRUE]
     ELSE IF S[n].response # None
     THEN [plain EXCEPT !.colour = "green", !.text = S[n].response]
     ELSE plain

\* Lines 281-291: the line of node n, yellow with the arrow for the
\* highlight, green with the response for another answered node when there
\* is a highlight, and the bare label otherwise.
Line(S, n, highlight) ==
  LET plain == [node |-> n, depth |-> Depth(S, n), label |-> display(S[n].kind),
                colour |-> None, arrow |-> FALSE, text |-> None]
  IN IF highlight # NoStep
     THEN IF n = highlight
          THEN [plain EXCEPT !.colour = "yellow", !.arrow = TRUE]
          ELSE IF S[n].response # None
          THEN [plain EXCEPT !.colour = "green", !.text = S[n].response]
          ELSE plain
     ELSE plain

\* The text of the panel: one line per node of the tree.
Render(S, highlight) ==
  LET nodes == PreOrder(S, Root)
  IN [i \in 1 .. Len(nodes) |-> Line(S, nodes[i], highlight)]

\* (mutant) rendering the tree marks the highlighted step as completed.
visualize_marking(W, highlight) ==
  LET W1 == [W EXCEPT !.out = Panel,
                      !.panel = [highlight |-> highlight,
                                 lines |-> Render(W.step, highlight)]]
  IN IF highlight # NoStep THEN [W1 EXCEPT !.step[highlight].completed = TRUE]
     ELSE W1

\* Tour.visualize(highlight), NoStep standing for highlight=None.
visualize(W, highlight) ==
  [W EXCEPT !.out = Panel,
            !.panel = [highlight |-> highlight,
                       lines |-> Render(W.step, highlight)]]

\* (mutant) the loop gives the menu a third try.
LoopEndsAfterThree(i) == i >= MenuTries + 1

\* (mutant) the loop never shows the menu again.
LoopEndsAtOnce(i) == i >= MenuTries - 1

\* Lines 214-229: the loop is over once i showings of the menu were
\* interrupted.
LoopEnds(i) == i >= MenuTries

\* (mutant) the count of interrupted showings is kept from one call of the
\* handler to the next.
LoopStarts_carrying(i) == i

\* Line 214: for _ in range(2) is local to the call: a call of the handler
\* starts with no interrupted showing, whatever count i the call before it
\* ended with.
LoopStarts(i) == 0

\* (mutant) "Go back" goes to the parent of the step.
go_back_to_parent(W, n) ==
  LET p == W.step[n].parent
  IN IF is_reversible(W.step[p].kind)
     THEN [w |-> class_undo(W, p), ret |-> p]
     ELSE [w |-> [W EXCEPT !.out = CannotBeUndone], ret |-> n]

\* (mutant) the previous step is returned without being undone.
go_back_without_undo(W, n) ==
  LET p == prev(W.step, n)
  IN IF is_reversible(W.step[p].kind)
     THEN [w |-> W, ret |-> p]
     ELSE [w |-> [W EXCEPT !.out = CannotBeUndone], ret |-> n]

\* (mutant) the previous step is undone without asking is_reversible().
go_back_unchecked(W, n) ==
  LET p == prev(W.step, n)
  IN [w |-> class_undo(W, p), ret |-> p]

\* Lines 231-239: "Go back one step"; ret is the step the handler returns.
go_back(W, n) ==
  LET p == prev(W.step, n)
  IN IF is_reversible(W.step[p].kind)
     THEN [w |-> class_undo(W, p), ret |-> p]
     ELSE [w |-> [W EXCEPT !.out = CannotBeUndone], ret |-> n]

\* (mutant) "Continue" goes back like "Go back" but stays at the step.
keyboard_interrupt_action_continue_undoes(W, n, act) ==
  IF act = 0 THEN go_back(W, n)
  ELSE IF act = 1 THEN [w |-> go_back(W, n).w, ret |-> n]
  ELSE IF act = 2 THEN [w |-> visualize(W, n), ret |-> n]
  ELSE IF act = 3 THEN [w |-> W, ret |-> n]
  ELSE [w |-> [W EXCEPT !.exc = "SystemExit"], ret |-> n]

\* (mutant) "Save progress" has no branch and falls into the exit.
keyboard_interrupt_action_save_exits(W, n, act) ==
  IF act = 0 THEN go_back(W, n)
  ELSE IF act = 1 THEN [w |-> W, ret |-> n]
  ELSE IF act = 2 THEN [w |-> visualize(W, n), ret |-> n]
  ELSE [w |-> [W EXCEPT !.exc = "SystemExit"], ret |-> n]

\* (mutant) "Exit" resumes like "Save progress"; only None exits.
keyboard_interrupt_action_exit_resumes(W, n, act) ==
  IF act = 0 THEN go_back(W, n)
  ELSE IF act = 1 THEN [w |-> W, ret |-> n]
  ELSE IF act = 2 THEN [w |-> visualize(W, n), ret |-> n]
  ELSE IF act \in {3, 4} THEN [w |-> W, ret |-> n]
  ELSE [w |-> [W EXCEPT !.exc = "SystemExit"], ret |-> n]

\* (mutant) "View the question tree" resumes at the step after the
\* interrupted one.
keyboard_interrupt_action_view_skips(W, n, act) ==
  IF act = 0 THEN go_back(W, n)
  ELSE IF act = 1 THEN [w |-> W, ret |-> n]
  ELSE IF act = 2 THEN [w |-> visualize(W, n), ret |-> next(W.step, n)]
  ELSE IF act = 3 THEN [w |-> W, ret |-> n]
  ELSE [w |-> [W EXCEPT !.exc = "SystemExit"], ret |-> n]

\* Lines 230-248: what the handler does with the action of the menu; ret is
\* the step it returns.
keyboard_interrupt_action(W, n, act) ==
  IF act = 0 THEN go_back(W, n)
  ELSE IF act = 1 THEN [w |-> W, ret |-> n]
  ELSE IF act = 2 THEN [w |-> visualize(W, n), ret |-> n]
  ELSE IF act = 3 THEN [w |-> W, ret |-> n]
  ELSE [w |-> [W EXCEPT !.exc = "SystemExit"], ret |-> n]

(* ------------------------------------------------------------------ *)
(* Tour.run(): the state of the program                                *)
(* ------------------------------------------------------------------ *)
VARIABLES
  step,         \* the Step objects, by id
  state,        \* the heap of State scopes; state[1] is tour.state
  node,         \* Tour.run's node
  pc,           \* "run": at node.run(); "menu": at the recovery menu;
                \* "returned", "exit", "raised": Tour.run() has ended
  attempt,      \* the iterations of the menu loop that were interrupted
  action,       \* keyboard_interrupt_action's action
  exit_status,  \* the argument of sys.exit, 0 while the process runs
  event,        \* the input consumed last
  printed,      \* what consuming it printed last
  panel,        \* the tree it rendered, if it rendered one
  raw,          \* what the prompt returned, if it was a prompt's answer
  raised,       \* the exception that left Tour.run(), None if none did
  tour_steps    \* tour.steps: the list the tour was built from

vars == <<step, state, node, pc, attempt, action, exit_status, event, printed,
          panel, raw, raised, tour_steps>>

\* The step lists the tours are built from.  In each tour the names of the
\* steps are unique within a State scope and differ from the sub-scope names,
\* and the classes whose effect adds steps are not reversible, so that no
\* effect runs twice.
TrivialTour == <<StepItem(1), StepItem(2), StepItem(3)>>
DatasetTour == <<StepItem(1), ListItem(4, <<StepItem(7)>>), StepItem(2)>>
StuckTour == <<StepItem(3), StepItem(8)>>
FailingEffectTour == <<StepItem(2), StepItem(9), StepItem(3)>>
NoPromptTour == <<StepItem(2), StepItem(10)>>
NoValidateTour == <<StepItem(3), StepItem(11)>>
TwoDatasetsTour == <<StepItem(5), StepItem(12), StepItem(6)>>
\* A tour whose first step is reversible and has an effect that adds a step.
RedoTour == <<StepItem(13), StepItem(2)>>
Tours == {TrivialTour, DatasetTour, StuckTour, FailingEffectTour, NoPromptTour,
          NoValidateTour, TwoDatasetsTour, RedoTour}

World ==
  [step |-> step, state |-> state, exc |-> None, out |-> None, panel |-> NoPanel]

\* (mutant) Tour.run() catches every exception and shows the recovery menu.
Ended_caught(exc) == IF exc = "SystemExit" THEN "exit" ELSE "menu"

\* How Tour.run() ends when the exception exc leaves it.
Ended(exc) == IF exc = "SystemExit" THEN "exit" ELSE "raised"

\* The exception Tour.run() lets through; sys.exit is recorded in exit_status.
Leaves(exc) == IF exc = "SystemExit" THEN None ELSE exc

\* The program after Tour(name, steps), steps being one of the lists of T.
InitTours(T) ==
  \E items \in T :
    LET W == NewTour(items)
    IN /\ step = W.step
       /\ state = W.state
       /\ tour_steps = items
       /\ raised = None
       /\ node = Root
       /\ pc = "run"
       /\ attempt = 0
       /\ action = NoAction
       /\ exit_status = 0
       /\ event = "init"
       /\ printed = None
       /\ panel = NoPanel
       /\ raw = None

Init == InitTours(Tours)

\* (mutant) no continue: the loop goes on to node.next().
resume_advancing(S, ret) == next(S, ret)

\* Lines 262-263: node = self.keyboard_interrupt_action(node); continue
resume(S, ret) == ret

\* (mutant) the loop never moves on from the step it ran.
advance_staying(S, n) == n

\* (mutant) the loop moves two steps on where it can, leaving one step unrun.
advance_skipping(S, n) ==
  IF next(S, n) # NoStep /\ next(S, next(S, n)) # NoStep
  THEN next(S, next(S, n))
  ELSE next(S, n)

\* Line 264: node = node.next()
advance(S, n) == next(S, n)

\* RootStep.run() does nothing; the loop moves on to the first step.
RunRoot ==
  /\ pc = "run" /\ node = Root
  /\ node' = advance(step, node)
  /\ pc' = IF node' = NoStep THEN "returned" ELSE "run"
  /\ event' = "start"
  /\ printed' = None
  /\ panel' = NoPanel
  /\ raw' = None
  /\ UNCHANGED <<step, state, attempt, action, exit_status, raised, tour_steps>>

\* The prompt of the current step returns the answer a.
Answer(a) ==
  /\ pc = "run" /\ node # Root /\ HasPrompt(step[node].kind)
  /\ LET W == run(World, node, a)
     IN /\ Len(W.step) <= MaxSteps
        /\ step' = W.step
        /\ state' = W.state
        /\ printed' = W.out
        /\ panel' = W.panel
        /\ raw' = a
        /\ IF W.exc # None
           THEN /\ pc' = Ended(W.exc)
                /\ raised' = Leaves(W.exc)
                /\ exit_status' = 1
                /\ node' = node
           ELSE IF W.step[node].completed
           THEN /\ node' = advance(W.step, node)
                /\ pc' = IF node' = NoStep THEN "returned" ELSE "run"
                /\ UNCHANGED <<exit_status, raised>>
           ELSE UNCHANGED <<node, pc, exit_status, raised>>
  /\ event' = "answer"
  /\ action' = NoAction
  /\ UNCHANGED <<attempt, tour_steps>>

\* The current step has no prompt(): node.run() raises before any input.
PromptMissing ==
  /\ pc = "run" /\ node # Root /\ ~HasPrompt(step[node].kind)
  /\ LET W == run_without_prompt(World, node)
     IN /\ step' = W.step
        /\ state' = W.state
        /\ printed' = W.out
        /\ panel' = W.panel
        /\ raw' = None
        /\ pc' = Ended(W.exc)
        /\ raised' = Leaves(W.exc)
        /\ exit_status' = 1
  /\ event' = "none"
  /\ action' = NoAction
  /\ UNCHANGED <<node, attempt, tour_steps>>

\* The prompt of the current step raises KeyboardInterrupt.
Interrupt ==
  /\ pc = "run" /\ node # Root /\ HasPrompt(step[node].kind)
  /\ LET W == run_interrupted(World, node)
     IN /\ step' = W.step
        /\ state' = W.state
        /\ IF W.exc = "KeyboardInterrupt"
           THEN /\ pc' = "menu"
                /\ printed' = KeyboardInterrupt
                /\ exit_status' = exit_status
           ELSE IF W.exc # None
           THEN /\ pc' = Ended(W.exc)
                /\ printed' = W.out
                /\ exit_status' = 1
           ELSE /\ pc' = "run"
                /\ printed' = W.out
                /\ exit_status' = exit_status
  /\ attempt' = LoopStarts(attempt)
  /\ action' = NoAction
  /\ event' = "interrupt"
  /\ panel' = NoPanel
  /\ raw' = None
  /\ UNCHANGED <<node, raised, tour_steps>>

\* Lines 230-248 and 262-263, the loop of the menu having ended with act.
Handle(act) ==
  LET r == keyboard_interrupt_action(World, node, act)
  IN /\ step' = r.w.step
     /\ state' = r.w.state
     /\ printed' = r.w.out
     /\ panel' = r.w.panel
     /\ raw' = None
     /\ tour_steps' = tour_steps
     /\ IF r.w.exc # None
        THEN /\ pc' = Ended(r.w.exc)
             /\ raised' = Leaves(r.w.exc)
             /\ exit_status' = 1
             /\ node' = node
        ELSE /\ pc' = "run"
             /\ node' = resume(r.w.step, r.ret)
             /\ UNCHANGED <<exit_status, raised>>

\* The recovery menu raises KeyboardInterrupt.
MenuInterrupt ==
  /\ pc = "menu"
  /\ attempt' = attempt + 1
  /\ event' = "menu_interrupt"
  /\ IF ~LoopEnds(attempt + 1)
     THEN /\ printed' = None
          /\ panel' = NoPanel
          /\ raw' = None
          /\ UNCHANGED <<step, state, node, pc, action, exit_status, raised,
                         tour_steps>>
     ELSE /\ action' = action
          /\ Handle(action)

\* The recovery menu returns the index c.
MenuChoice(c) ==
  /\ pc = "menu"
  /\ action' = c
  /\ event' = "menu"
  /\ Handle(c)
  /\ UNCHANGED attempt

Next ==
  \/ RunRoot
  \/ \E a \in Answers : Answer(a)
  \/ PromptMissing
  \/ Interrupt
  \/ MenuInterrupt
  \/ \E c \in MenuChoices : MenuChoice(c)

Spec == Init /\ [][Next]_vars

(* ------------------------------------------------------------------ *)
(* Tour.visualize() called at any point of a tour                      *)
(* ------------------------------------------------------------------ *)
\* tour.visualize(h): h is a step of the tour, or NoStep for no highlight.
Visualize(h) ==
  /\ h <= Len(step)
  /\ LET W == visualize(World, h)
     IN /\ step' = W.step
        /\ state' = W.state
        /\ printed' = W.out
        /\ panel' = W.panel
        /\ raw' = None
  /\ event' = "visualize"
  /\ UNCHANGED <<node, pc, attempt, action, exit_status, raised, tour_steps>>

\* A tour whose last step rejects some answers, and a tour whose steps accept
\* every answer, with an effect and a sub-scope.
RetryTour == <<StepItem(2), StepItem(1)>>
BranchingTour == <<StepItem(2), ListItem(4, <<StepItem(7)>>), StepItem(3)>>
VisualizeTours == {RetryTour, BranchingTour}

InitVisualize == InitTours(VisualizeTours)

NextVisualize ==
  \/ RunRoot
  \/ \E a \in Answers : Answer(a)
  \/ Interrupt
  \/ MenuInterrupt
  \/ \E c \in MenuChoices : MenuChoice(c)
  \/ \E h \in 0 .. MaxSteps : Visualize(h)

SpecVisualize == InitVisualize /\ [][NextVisualize]_vars

(* ------------------------------------------------------------------ *)
(* Tours with a path-typed step, answered with typed text              *)
(* ------------------------------------------------------------------ *)
PathTours == {<<StepItem(7), StepItem(2)>>, <<StepItem(1), StepItem(7)>>}

InitPaths == InitTours(PathTours)

NextPaths ==
  \/ RunRoot
  \/ \E a \in RawAnswers : Answer(a)
  \/ Interrupt
  \/ MenuInterrupt
  \/ \E c \in MenuChoices : MenuChoice(c)

SpecPaths == InitPaths /\ [][NextPaths]_vars

(* ------------------------------------------------------------------ *)
(* Shorthands of the properties                                        *)
(* ------------------------------------------------------------------ *)
Steps == 1 .. Len(step)
KindOf(s) == step[s].kind
NameOf(s) == Name(step[s].kind)

\* State, or State[state_subset]: the scope a step of class k resolves to
\* in the heap h, 0 if State has no such sub-scope.
ScopeOfKind(h, k) ==
  IF Subset(k) = None THEN 1
  ELSE IF Subset(k) \in DOMAIN h[1] THEN h[1][Subset(k)].ref ELSE 0

\* Step s has an entry in its resolved scope in the heap h.
HasEntry(h, s) ==
  /\ ScopeOfKind(h, KindOf(s)) # 0
  /\ NameOf(s) \in DOMAIN h[ScopeOfKind(h, KindOf(s))]

\* The entry of step s in its resolved scope.
Entry(h, s) == h[ScopeOfKind(h, KindOf(s))][NameOf(s)]

(* ------------------------------------------------------------------ *)
(* Linear tours run without interrupts and with accepted answers.      *)
(* ------------------------------------------------------------------ *)
MaxLinear == 3

\* Step classes without state_subset, without effect, with distinct names.
LinearKinds == {1, 2, 3, 7}

\* Tour(name, [s1, ..., sn]): n top-level steps of distinct classes.
LinearTours ==
  {t \in UNION {[1 .. n -> {StepItem(k) : k \in LinearKinds}] : n \in 1 .. MaxLinear} :
     \A i, j \in DOMAIN t : i # j => t[i] # t[j]}

InitLinear == InitTours(LinearTours)

\* The user gives an answer the current step accepts.
AnswerValid(a) ==
  /\ pc = "run" /\ node # Root
  /\ validate(step[node].kind, sanitize_input(step[node].kind, a))
  /\ Answer(a)

NextLinear ==
  \/ RunRoot
  \/ \E a \in Answers : AnswerValid(a)

SpecLinear == InitLinear /\ [][NextLinear]_vars

(* ------------------------------------------------------------------ *)
(* Tours with a sublist, run without interrupts and with accepted      *)
(* answers.                                                            *)
(* ------------------------------------------------------------------ *)
\* Tour(name, [[head, t1, ..., tn], last]): a sublist of distinct classes,
\* then a top-level step of another class.
NestedTours ==
  UNION {{<<ListItem(t[1].head, Tail(t)), StepItem(k)>> :
            k \in LinearKinds \ {t[i].head : i \in DOMAIN t}} :
         t \in {u \in LinearTours : Len(u) >= 2}}

InitNested == InitTours(NestedTours)

SpecNested == InitNested /\ [][NextLinear]_vars

(* ------------------------------------------------------------------ *)
(* Tours constructed with a State, run with accepted answers.          *)
(* ------------------------------------------------------------------ *)
\* The State handed to Tour(): none (a new State), one with an answer at
\* the top level, one with the sub-scope dataset_0 holding an answer.
Seeds ==
  {<<EmptyState>>,
   <<(Name(1) :> Val("yes"))>>,
   <<("dataset_0" :> Ref(2)), (Name(6) :> Val("no"))>>}

SeededTours == {TrivialTour, DatasetTour, TwoDatasetsTour}

InitSeeded ==
  \E items \in SeededTours : \E st \in Seeds :
    LET W == NewTourIn(items, st)
    IN /\ step = W.step
       /\ state = W.state
       /\ tour_steps = items
       /\ raised = None
       /\ node = Root
       /\ pc = "run"
       /\ attempt = 0
       /\ action = NoAction
       /\ exit_status = 0
       /\ event = "init"
       /\ printed = None
       /\ panel = NoPanel
       /\ raw = None

SpecSeeded == InitSeeded /\ [][NextLinear]_vars

(* ------------------------------------------------------------------ *)
(* A tour whose user goes on answering                                 *)
(* ------------------------------------------------------------------ *)
\* The rejected answers a step is given before an accepted one.
MaxRejected == 2

\* Tours with a step that rejects answers, an effect that adds a step under
\* a reversible step, an effect that raises.
LiveTours == {TrivialTour, RedoTour, FailingEffectTour}

InitLive == InitTours(LiveTours)

\* The prompt returns the answer a: one the step accepts, or one of the few
\* it rejects before that.
AnswerLive(a) ==
  /\ pc = "run" /\ node # Root
  /\ \/ validate(step[node].kind, sanitize_input(step[node].kind, a))
     \/ step[node].failures < MaxRejected
  /\ Answer(a)

NextLive ==
  \/ RunRoot
  \/ \E a \in Answers : AnswerLive(a)
  \/ Interrupt
  \/ MenuInterrupt
  \/ \E c \in MenuChoices : MenuChoice(c)

\* Tour.run() is a loop that runs on (line 253); a prompt blocks until the
\* user answers, and the user in the end gives an answer the step accepts and
\* picks an entry of the menu.
FairLive ==
  /\ WF_vars(RunRoot)
  /\ WF_vars(\E a \in Answers : AnswerValid(a))
  /\ WF_vars(\E c \in MenuChoices : MenuChoice(c))

SpecLive == InitLive /\ [][NextLive]_vars /\ FairLive

(* ------------------------------------------------------------------ *)
(* Tours with a step that rejects answers and has an effect.           *)
(* ------------------------------------------------------------------ *)
\* A step whose validate rejects an answer and whose effect adds a step,
\* first or after another step; a step whose effect raises.
EffectTours ==
  {<<StepItem(15), StepItem(2)>>,
   <<StepItem(1), StepItem(15), StepItem(3)>>,
   FailingEffectTour}

InitEffects == InitTours(EffectTours)

SpecEffects == InitEffects /\ [][NextLive]_vars

(* ------------------------------------------------------------------ *)
(* Tours with two steps of one name in one scope.                      *)
(* ------------------------------------------------------------------ *)
\* Tour(name, steps) with two Step objects of the same class: add_step
\* takes any step, whatever its name.
CollidingTours ==
  {<<StepItem(2), StepItem(2), StepItem(3)>>,
   <<StepItem(5), StepItem(5), StepItem(1)>>}

InitCollide == InitTours(CollidingTours)

SpecCollide == InitCollide /\ [][NextLive]_vars

(* ------------------------------------------------------------------ *)
(* C1                                                                  *)
(* ------------------------------------------------------------------ *)
\* C1: whenever Step.run() succeeds (the step becomes completed), the step's
\* response is an answer its validate accepts and State[scope][step.name]
\* equals step.response, the scope being the top-level State for a step
\* without state_subset and State[state_subset] otherwise.
C1_RunCommitsResponse ==
  [][\A s \in Steps :
       (~step[s].completed /\ step'[s].completed) =>
         /\ step'[s].response \in Valid(KindOf(s))
         /\ ScopeOfKind(state', KindOf(s)) # 0
         /\ NameOf(s) \in DOMAIN state'[ScopeOfKind(state', KindOf(s))]
         /\ state'[ScopeOfKind(state', KindOf(s))][NameOf(s)] = Val(step'[s].response)]_vars

\* A step of a sub-scope has just been run with an accepted answer.
C1_Witness ==
  /\ event = "answer" /\ pc = "run"
  /\ \E s \in Steps :
       /\ step[s].completed /\ Subset(KindOf(s)) # None
       /\ prev(step, node) = s
       /\ Entry(state, s) = Val("no")

(* ------------------------------------------------------------------ *)
(* C2                                                                  *)
(* ------------------------------------------------------------------ *)
\* C2: undo() on a completed step empties its response, resets completed and
\* removes the step's own key from its scope; the other entries of the scope,
\* the other scopes, the step's other fields (parent, children) and all other
\* steps are unchanged.  This is Step.undo(): for a step of a class that
\* inherits it, it is all that the transition changes.
C2_UndoFrame ==
  [][\A s \in Steps :
       (step[s].completed /\ ~step'[s].completed) =>
         /\ undo(World, s).step =
              [step EXCEPT ![s].response = None, ![s].completed = FALSE]
         /\ undo(World, s).state = state'
         /\ ~OverridesUndo(KindOf(s)) => step' = undo(World, s).step
         /\ HasEntry(state, s)
         /\ Len(state') = Len(state)
         /\ \A sc \in 1 .. Len(state) :
              IF sc = ScopeOfKind(state, KindOf(s))
              THEN /\ DOMAIN state'[sc] = DOMAIN state[sc] \ {NameOf(s)}
                   /\ \A key \in DOMAIN state'[sc] : state'[sc][key] = state[sc][key]
              ELSE state'[sc] = state[sc]]_vars

\* 'Go back' has just undone a step whose scope holds another entry.
C2_Witness ==
  /\ event = "menu" /\ action = 0 /\ printed = None /\ pc = "run"
  /\ ~step[node].completed /\ step[node].response = None
  /\ ScopeOfKind(state, KindOf(node)) # 0
  /\ DOMAIN state[ScopeOfKind(state, KindOf(node))] # {}

(* ------------------------------------------------------------------ *)
(* C3                                                                  *)
(* ------------------------------------------------------------------ *)
\* C3: a step whose validate rejects every answer ends the process with a
\* non-zero exit status at its 20th failed validation: the breaker has not
\* fired before the 20th failure, and once 20 failures are counted the
\* process has exited (no further prompt is pending).
C3_ExitAtTwentiethFailure ==
  \A s \in Steps :
    Valid(KindOf(s)) = {} =>
      /\ (printed = GivingUp => step[s].failures >= 20)
      /\ (step[s].failures >= 20 => pc = "exit" /\ exit_status # 0)

(* ------------------------------------------------------------------ *)
(* C4                                                                  *)
(* ------------------------------------------------------------------ *)
\* C4: an interrupt at a step's prompt does not end Tour.run(): it leads to
\* the recovery menu with the same current step; and when the menu handler
\* returns a step, the loop runs exactly that step next, not a successor of
\* it.
C4_InterruptLeadsToMenu ==
  [][/\ (event' = "interrupt") =>
          /\ pc' = "menu" /\ node' = node /\ exit_status' = 0
     /\ (pc = "menu" /\ pc' = "run") =>
          node' = keyboard_interrupt_action(World, node, action').ret]_vars

\* The tour was interrupted at a step that has a successor, and 'Continue'
\* resumed it at that same step.
C4_Witness ==
  /\ event = "menu" /\ action = 1 /\ pc = "run"
  /\ next(step, node) # NoStep
  /\ step[node].parent # Root
  /\ ~step[node].completed

(* ------------------------------------------------------------------ *)
(* C5                                                                  *)
(* ------------------------------------------------------------------ *)
\* C5: 'go back' hands control to the previous step exactly when that step
\* is_reversible(); the step is then undone before it is run again: it is
\* prompted with completed false, an empty response and no State entry.
\* Otherwise control stays at the interrupted step.
C5_GoBackIffReversible ==
  [][(pc = "menu" /\ event' = "menu" /\ action' = 0) =>
       LET p == prev(step, node)
       IN /\ pc' = "run"
          /\ IF is_reversible(KindOf(p))
             THEN /\ node' = p
                  /\ ~step'[p].completed
                  /\ step'[p].response = None
                  /\ ~HasEntry(state', p)
             ELSE node' = node]_vars

\* 'Go back' has just moved the tour to a reversible step of a sub-scope that
\* had been completed.
C5_Witness ==
  /\ event = "menu" /\ action = 0 /\ printed = None /\ pc = "run"
  /\ is_reversible(KindOf(node)) /\ Subset(KindOf(node)) # None
  /\ ~step[node].completed /\ ~HasEntry(state, node)
  /\ step[node].failures = 0

(* ------------------------------------------------------------------ *)
(* C6                                                                  *)
(* ------------------------------------------------------------------ *)
\* C6: 'go back' when the previous step S is not reversible changes no step
\* (completed, response, links) and no State entry, reports that S cannot be
\* undone, and resumes the tour at the interrupted step, without an exit.
C6_IrreversibleGoBack ==
  [][(/\ pc = "menu" /\ event' = "menu" /\ action' = 0
      /\ ~is_reversible(KindOf(prev(step, node)))) =>
       /\ step' = step
       /\ state' = state
       /\ node' = node
       /\ pc' = "run"
       /\ exit_status' = 0
       /\ printed' = CannotBeUndone]_vars

\* 'Go back' was refused past a completed, irreversible step that has a
\* State entry.
C6_Witness ==
  /\ event = "menu" /\ action = 0 /\ printed = CannotBeUndone /\ pc = "run"
  /\ LET p == prev(step, node)
     IN /\ p # Root
        /\ ~is_reversible(KindOf(p))
        /\ step[p].completed
        /\ HasEntry(state, p)

(* ------------------------------------------------------------------ *)
(* C7                                                                  *)
(* ------------------------------------------------------------------ *)
\* C7: 'Continue' (1), 'View the question tree' (2) and 'Save progress' (3)
\* resume at the interrupted step and change no step and no State entry;
\* only 'View the question tree' prints (the tree), 'Save progress' and
\* 'Continue' do nothing else.
C7_ResumingChoices ==
  [][(pc = "menu" /\ event' = "menu" /\ action' \in {1, 2, 3}) =>
       /\ node' = node
       /\ pc' = "run"
       /\ step' = step
       /\ state' = state
       /\ exit_status' = 0
       /\ printed' = IF action' = 2 THEN Panel ELSE None]_vars

\* 'Save progress' was chosen when an answer had already been committed.
C7_Witness ==
  /\ event = "menu" /\ action = 3 /\ pc = "run"
  /\ \E s \in Steps : step[s].completed /\ HasEntry(state, s)

(* ------------------------------------------------------------------ *)
(* C8                                                                  *)
(* ------------------------------------------------------------------ *)
\* C8: 'Exit' (4) ends the process with a non-zero exit status, leaving every
\* step and every State entry as they were; once the process has exited,
\* nothing runs any more.
C8_ExitTerminates ==
  [][/\ (pc = "menu" /\ event' = "menu" /\ action' = 4) =>
          /\ pc' = "exit"
          /\ exit_status' # 0
          /\ step' = step
          /\ state' = state
          /\ node' = node
     /\ (pc = "exit") => UNCHANGED <<step, state, node, pc, exit_status>>]_vars

\* 'Exit' was chosen after an answer had been committed.
C8_Witness ==
  /\ event = "menu" /\ action = 4 /\ pc = "exit" /\ exit_status = 1
  /\ \E s \in Steps : step[s].completed /\ HasEntry(state, s)

(* ------------------------------------------------------------------ *)
(* C9                                                                  *)
(* ------------------------------------------------------------------ *)
\* C9 as stated: each of the first two interrupts received while the
\* recovery menu is being answered is tolerated (the menu is asked again).
C9_TwoMenuInterruptsTolerated ==
  [][(pc = "menu" /\ event' = "menu_interrupt" /\ attempt < 2) =>
       pc' = "menu"]_vars

\* C9 amended: while the recovery menu is being answered, one interrupt is
\* tolerated (the menu is asked again, nothing else changes) and the second
\* interrupt received during the menu ends the process with a non-zero exit
\* status; the menu is never shown a third time.
C9_OneMenuInterruptTolerated ==
  [][(pc = "menu" /\ event' = "menu_interrupt") =>
       /\ attempt \in {0, 1}
       /\ IF attempt = 0
          THEN /\ pc' = "menu" /\ exit_status' = 0
               /\ UNCHANGED <<step, state, node>>
          ELSE /\ pc' = "exit" /\ exit_status' # 0
               /\ UNCHANGED <<step, state, node>>]_vars

\* The second interrupt during the recovery menu has ended the process.
C9_Witness ==
  /\ event = "menu_interrupt" /\ attempt = 2 /\ pc = "exit" /\ exit_status = 1

(* ------------------------------------------------------------------ *)
(* C10                                                                 *)
(* ------------------------------------------------------------------ *)
\* C10: an interrupt at a step's prompt followed by an interrupt at the first
\* showing of the menu shows the menu again, and the answer then given is
\* honoured as the handler defines it ('Continue' resumes, 'Exit' exits);
\* a third interrupt in a row, at the second showing, exits the process.
C10_ThreeInterruptsInARow ==
  [][/\ (event = "interrupt" /\ event' = "menu_interrupt") =>
          pc' = "menu" /\ exit_status' = 0 /\ node' = node
     /\ (pc = "menu" /\ event = "menu_interrupt" /\ event' = "menu_interrupt") =>
          pc' = "exit" /\ exit_status' # 0
     /\ (pc = "menu" /\ event = "menu_interrupt" /\ event' = "menu") =>
          /\ step' = keyboard_interrupt_action(World, node, action').w.step
          /\ state' = keyboard_interrupt_action(World, node, action').w.state
          /\ (action' = 1 => pc' = "run" /\ node' = node)
          /\ (action' = 4 => pc' = "exit")
          /\ (action' = 0 /\ is_reversible(KindOf(prev(step, node))) =>
                pc' = "run" /\ node' = prev(step, node))]_vars

\* The menu was interrupted once, shown again, and 'Continue' was honoured.
C10_Witness ==
  /\ event = "menu" /\ attempt = 1 /\ action = 1 /\ pc = "run"
  /\ ~step[node].completed

(* ------------------------------------------------------------------ *)
(* C11                                                                 *)
(* ------------------------------------------------------------------ *)
RECURSIVE CountItems(_)
\* The number of Step objects a list of steps holds.
CountItems(items) ==
  IF items = <<>> THEN 0
  ELSE 1 + CountItems(items[1].rest) + CountItems(Tail(items))

\* The steps that were inserted by an effect, after the tour was built.
Inserted == {s \in Steps : s > 1 + CountItems(tour_steps)}

\* The siblings that follow step p under its parent.
LaterSiblings(p) ==
  IF step[p].parent = NoStep THEN {}
  ELSE LET sibs == step[step[p].parent].children
       IN {sibs[j] : j \in IndexIn(sibs, p) + 1 .. Len(sibs)}

\* C11: when the effect of a step S inserts k >= 1 children under S, they
\* become the first k children of S in their declared order and the step run
\* next is the first of them; each inserted child is followed by the next
\* inserted one, and only the last of them by a child S already had or by a
\* later sibling; none of those older steps is completed while an inserted
\* child has still to be run.
C11_InsertedChildrenRunFirst ==
  [][\A s \in Steps :
       (node = s /\ event' = "answer" /\ ~step[s].completed
          /\ step'[s].completed /\ pc' # "raised") =>
         LET items == Effect(KindOf(s), step'[s].response)
             k == Len(items)
             old == step[s].children
             new == step'[s].children
             p == step[s].parent
         IN /\ k >= 1 =>
                 /\ Len(new) = k + Len(old)
                 /\ SubSeq(new, k + 1, Len(new)) = old
                 /\ \A j \in 1 .. k :
                      /\ new[j] \notin Steps
                      /\ step'[new[j]].kind = items[j].head
                      /\ step'[new[j]].parent = s
                      /\ ~step'[new[j]].completed
                 /\ node' = new[1]
            /\ s \in Inserted =>
                 LET kp == Len(Effect(KindOf(p), step[p].response))
                     sibs == step[p].children
                     i == IndexIn(sibs, s)
                 IN /\ i <= kp
                    /\ \A c \in {sibs[j] : j \in kp + 1 .. Len(sibs)}
                                \cup LaterSiblings(p) : ~step[c].completed
                    /\ i < kp => node' = sibs[i + 1]
                    /\ i = kp =>
                         /\ Len(sibs) > kp => node' = sibs[kp + 1]
                         /\ Len(sibs) = kp =>
                              node' \in LaterSiblings(p) \cup {NoStep}]_vars

\* The effect of a step has inserted two children before the child the step
\* already had, the first of them has been run and the second is current.
C11_Witness ==
  /\ \E s \in Steps :
       /\ Len(Effect(KindOf(s), step[s].response)) = 2
       /\ Len(step[s].children) = 3
       /\ step[s].children[1] \in Inserted
       /\ step[step[s].children[1]].completed
       /\ node = step[s].children[2]
       /\ node \in Inserted
       /\ ~step[step[s].children[3]].completed

(* ------------------------------------------------------------------ *)
(* C12                                                                 *)
(* ------------------------------------------------------------------ *)
\* The top-level steps of the tour, in tree order.
TopLevel == step[Root].children

\* C12: in a tour built from n top-level steps and run without interrupts
\* with accepted answers, the steps are the root's children in declared order,
\* the completed steps are always exactly those before the current one, and
\* when Tour.run() returns all n are completed and State is exactly
\* {name_i: a_i}, with no entry for the root and no sub-scope.
C12_LinearTour ==
  /\ pc \in {"run", "returned"}
  /\ Len(TopLevel) = Len(tour_steps)
  /\ \A i \in 1 .. Len(tour_steps) : KindOf(TopLevel[i]) = tour_steps[i].head
  /\ \A i \in 1 .. Len(TopLevel) :
       step[TopLevel[i]].completed <=>
         \/ pc = "returned"
         \/ node # Root /\ i < IndexIn(TopLevel, node)
  /\ pc = "returned" =>
       /\ node = NoStep
       /\ Len(state) = 1
       /\ DOMAIN state[1] = {NameOf(TopLevel[i]) : i \in 1 .. Len(TopLevel)}
       /\ Name(RootKind) \notin DOMAIN state[1]
       /\ \A i \in 1 .. Len(TopLevel) :
            /\ step[TopLevel[i]].response \in Valid(KindOf(TopLevel[i]))
            /\ state[1][NameOf(TopLevel[i])] = Val(step[TopLevel[i]].response)

\* A tour of three steps has returned with three different answers recorded.
C12_Witness ==
  /\ pc = "returned"
  /\ Len(tour_steps) = 3
  /\ \A i \in 1 .. 3 : step[TopLevel[i]].completed
  /\ step[TopLevel[1]].response # step[TopLevel[2]].response
  /\ Cardinality(DOMAIN state[1]) = 3

(* ------------------------------------------------------------------ *)
(* C13                                                                 *)
(* ------------------------------------------------------------------ *)
\* The current step has just consumed an answer that its validate rejects.
Rejected ==
  /\ event' = "answer"
  /\ HasValidate(KindOf(node))
  /\ ~validate(KindOf(node), step'[node].response)

\* The current step has just consumed an answer that its validate accepts.
Accepted ==
  /\ event' = "answer"
  /\ HasValidate(KindOf(node))
  /\ validate(KindOf(node), step'[node].response)

\* C13 as stated: Step.run() re-prompts after every answer that fails
\* validate. It does not after the answer that trips the limit on validation
\* failures: the process exits instead.
C13_AlwaysReprompts ==
  [][Rejected => pc' = "run" /\ node' = node]_vars

\* C13: a rejected answer is never written to State and never marks the step
\* completed, and the same step is prompted again unless the step's count of
\* validation failures now exceeds the limit, in which case the process exits
\* with status 1; an accepted answer is committed, completes the step and is
\* the last answer this run of the step consumes.
C13_RepromptUntilAcceptedOrGivingUp ==
  [][/\ Rejected =>
          /\ state' = state
          /\ ~step'[node].completed
          /\ node' = node
          /\ IF TooManyFailures(step'[node].failures)
             THEN pc' = "exit" /\ exit_status' = 1
             ELSE pc' = "run" /\ exit_status' = exit_status
     /\ Accepted =>
          /\ step'[node].completed
          /\ step'[node].failures = step[node].failures
          /\ HasEntry(state', node)
          /\ Entry(state', node) = Val(step'[node].response)
          /\ pc' # "run" \/ node' # node]_vars

\* A step was answered wrongly twice and then rightly: it is completed with
\* the accepted answer recorded and another step is current.
C13_Witness ==
  \E s \in Steps :
    /\ step[s].failures = 2
    /\ step[s].completed
    /\ HasEntry(state, s)
    /\ Entry(state, s) = Val(step[s].response)
    /\ event = "answer"
    /\ node # s

(* ------------------------------------------------------------------ *)
(* C14                                                                 *)
(* ------------------------------------------------------------------ *)
\* The effect of the current step has just run: it has inserted steps or it
\* has failed.
EffectSeen == Len(step') > Len(step) \/ raised' = "OSError"

\* C14: the effect of a step runs only in a run whose answer validate
\* accepted, and runs in every such run; when it runs the answer is already
\* committed to State (also when the effect then fails), and the successor
\* Tour.run() computes is the successor in the tree that holds the children
\* the effect inserted. A rejected answer runs no effect.
C14_EffectAfterCommitBeforeNext ==
  [][event' = "answer" =>
       /\ EffectSeen =>
            /\ Accepted
            /\ step'[node].completed
            /\ HasEntry(state', node)
            /\ Entry(state', node) = Val(step'[node].response)
       /\ Accepted =>
            /\ EffectRaises(KindOf(node), step'[node].response) <=> raised' = "OSError"
            /\ ~EffectRaises(KindOf(node), step'[node].response) =>
                 Len(step') = Len(step) + Len(Effect(KindOf(node), step'[node].response))
       /\ Len(step') > Len(step) =>
            /\ node' = next(step', node)
            /\ node' \notin Steps
            /\ step'[node'].parent = node
       /\ Rejected => Len(step') = Len(step) /\ raised' = None]_vars

\* The answer just given was committed, the effect then inserted children and
\* the first of them is the current step.
C14_Witness ==
  /\ event = "answer"
  /\ pc = "run"
  /\ node \in Inserted
  /\ step[node].response = None
  /\ step[step[node].parent].children[1] = node
  /\ step[step[node].parent].completed
  /\ HasEntry(state, step[node].parent)

(* ------------------------------------------------------------------ *)
(* C15                                                                 *)
(* ------------------------------------------------------------------ *)
RECURSIVE Reach(_)
\* The steps of the subtree of n.
Reach(n) ==
  {n} \cup UNION {Reach(step[n].children[i]) : i \in 1 .. Len(step[n].children)}

\* C15: at every point from the end of Tour construction onwards, every step
\* reachable from the root (those inserted by effects included) has a state
\* binding and the reference to its Tour; a step with state_subset k is bound
\* to State[k], which exists, and any other step to the top-level State.
C15_StepsAreBound ==
  \A s \in Reach(Root) :
    /\ step[s].tour
    /\ step[s].state # 0
    /\ Subset(KindOf(s)) = None => step[s].state = 1
    /\ Subset(KindOf(s)) # None =>
         /\ Subset(KindOf(s)) \in DOMAIN state[1]
         /\ step[s].state = state[1][Subset(KindOf(s))].ref
         /\ step[s].state # 1

\* A step inserted by an effect, with a state_subset whose sub-scope the
\* insertion created, is about to be run.
C15_Witness ==
  /\ pc = "run"
  /\ node \in Inserted
  /\ node \in Reach(Root)
  /\ Subset(KindOf(node)) # None
  /\ ~step[node].completed
  /\ step[node].tour
  /\ step[node].state = Len(state)

(* ------------------------------------------------------------------ *)
(* C16                                                                 *)
(* ------------------------------------------------------------------ *)
\* The scope sc of the heap h without the key.
Without(h, sc, key) == [x \in DOMAIN h[sc] \ {key} |-> h[sc][x]]

\* The steps that declare a state_subset.
SubsetSteps == {s \in Steps : Subset(KindOf(s)) # None}

\* C16: when run() commits or undo() removes the answer of a step with
\* state_subset k, the only change to State is the entry State[k][name]:
\* the top level and every other sub-scope keep their keys and values; and
\* the steps declaring the same state_subset are bound to one sub-scope,
\* steps declaring different ones to different sub-scopes.
C16_SubScopeIsolation ==
  [][/\ \A s \in SubsetSteps :
          (step[s].completed # step'[s].completed) =>
            LET sc == step[s].state
            IN /\ sc = state[1][Subset(KindOf(s))].ref
               /\ sc # 1
               /\ Len(state') = Len(state)
               /\ \A i \in 1 .. Len(state) : i # sc => state'[i] = state[i]
               /\ Without(state', sc, NameOf(s)) = Without(state, sc, NameOf(s))
               /\ step'[s].completed =>
                    /\ NameOf(s) \in DOMAIN state'[sc]
                    /\ state'[sc][NameOf(s)] = Val(step'[s].response)
               /\ ~step'[s].completed => NameOf(s) \notin DOMAIN state'[sc]
     /\ \A s, t \in SubsetSteps :
          (Subset(KindOf(s)) = Subset(KindOf(t))) <=> (step[s].state = step[t].state)]_vars

\* Two steps of the same name in two sub-scopes were both answered and one of
\* them was then undone: its entry is gone, the other sub-scope has its own.
C16_Witness ==
  \E s, t \in SubsetSteps :
    /\ NameOf(s) = NameOf(t)
    /\ Subset(KindOf(s)) # Subset(KindOf(t))
    /\ step[t].completed
    /\ NameOf(t) \in DOMAIN state[step[t].state]
    /\ ~step[s].completed
    /\ NameOf(s) \notin DOMAIN state[step[s].state]
    /\ event = "menu" /\ action = 0 /\ node = s

(* ------------------------------------------------------------------ *)
(* C17                                                                 *)
(* ------------------------------------------------------------------ *)
\* C17: run() on a step without prompt(), and run() on a step without
\* validate() once its prompt was answered, raises NotImplementedError,
\* which leaves Tour.run(): no new prompt, no recovery menu and no further
\* step of the tour; the step is not completed, State is unchanged and the
\* step's count of validation failures is unchanged.
C17_MissingImplementationIsFatal ==
  [][/\ (/\ pc = "run" /\ node # Root
         /\ \/ ~HasPrompt(KindOf(node))
            \/ ~HasValidate(KindOf(node)) /\ event' = "answer") =>
          /\ raised' = "NotImplementedError"
          /\ pc' = "raised"
          /\ node' = node
          /\ ~step'[node].completed
          /\ step'[node].failures = step[node].failures
          /\ state' = state
          /\ printed' = None
     /\ raised = "NotImplementedError" => FALSE]_vars

\* A step without validate() was prompted and answered: NotImplementedError
\* has left Tour.run() with the earlier step's answer still in State.
C17_Witness ==
  /\ raised = "NotImplementedError"
  /\ pc = "raised"
  /\ ~HasValidate(KindOf(node))
  /\ step[node].response # None
  /\ ~step[node].completed
  /\ step[node].failures = 0
  /\ DOMAIN state[1] = {Name(3)}

(* ------------------------------------------------------------------ *)
(* C18                                                                 *)
(* ------------------------------------------------------------------ *)
\* C18: when the effect of the step being run fails with an exception that
\* is not an interrupt, the exception leaves Tour.run(): no recovery menu is
\* shown, no later step is run, and the step stays completed with its answer
\* in State.
C18_EffectFailurePropagates ==
  [][/\ (Accepted /\ EffectRaises(KindOf(node), step'[node].response)) =>
          /\ raised' = "OSError"
          /\ pc' = "raised"
          /\ node' = node
          /\ step'[node].completed
          /\ HasEntry(state', node)
          /\ Entry(state', node) = Val(step'[node].response)
          /\ \A s \in Steps \ {node} : step'[s] = step[s]
          /\ Len(step') = Len(step)
     /\ raised = "OSError" => FALSE]_vars

\* The effect of the second step of a tour failed: its answer and the first
\* step's are in State and the third step was never prompted.
C18_Witness ==
  /\ raised = "OSError"
  /\ pc = "raised"
  /\ step[node].completed
  /\ HasEntry(state, node)
  /\ Cardinality(DOMAIN state[1]) = 2
  /\ \E s \in Steps : s # Root /\ step[s].response = None

(* ------------------------------------------------------------------ *)
(* C19                                                                 *)
(* ------------------------------------------------------------------ *)
\* C19: visualize() is read-only: whatever the tree, whatever the point of
\* the tour and whatever the highlight (none or any step), rendering the tree
\* changes no step (response, completed flag, failure counter, parent,
\* children, bindings) and no entry of State.
C19_VisualizeIsReadOnly ==
  [][printed' = Panel =>
       /\ step' = step
       /\ state' = state
       /\ node' = node
       /\ exit_status' = exit_status]_vars

\* The tree was rendered with the highlight on a step that has rejected two
\* answers and is not completed, while another step's answer is in State.
C19_Witness ==
  /\ event = "visualize"
  /\ printed = Panel
  /\ panel.highlight # NoStep
  /\ ~step[panel.highlight].completed
  /\ step[panel.highlight].failures = 2
  /\ step[panel.highlight].response # None
  /\ state[1] # EmptyState

(* ------------------------------------------------------------------ *)
(* C20                                                                 *)
(* ------------------------------------------------------------------ *)
\* What a line of the panel shows: the current marker, a response, neither.
Current(l) == l.arrow /\ l.colour = "yellow" /\ l.text = None
Answered(l) == ~l.arrow /\ l.colour = "green" /\ l.text # None
Plain(l) == ~l.arrow /\ l.colour = None /\ l.text = None

\* The panel has one line for each node of the tree, each of one class.
OneLinePerNode ==
  /\ Len(panel.lines) = Cardinality(Reach(Root))
  /\ \A n \in Reach(Root) : \E i \in DOMAIN panel.lines : panel.lines[i].node = n
  /\ \A i \in DOMAIN panel.lines :
       LET l == panel.lines[i]
       IN Current(l) \/ Answered(l) \/ Plain(l)
  /\ Cardinality({i \in DOMAIN panel.lines : Current(panel.lines[i])}) <= 1

\* C20 as stated: with or without a highlight, a node that is not the
\* highlight and has a response is shown with its response. Without a
\* highlight the code shows every node plain.
C20_ResponseShownWithOrWithoutHighlight ==
  printed = Panel =>
    /\ OneLinePerNode
    /\ \A i \in DOMAIN panel.lines :
         LET l == panel.lines[i]
         IN /\ Current(l) <=> (l.node = panel.highlight)
            /\ Answered(l) <=>
                 (l.node # panel.highlight /\ step[l.node].response # None)

\* C20: in the output of visualize(highlight) every node has one line of
\* exactly one class. When a highlight is given: the highlighted node carries
\* the current marker, any other node with a response is shown with its
\* response, any other node is plain. When no highlight is given every node
\* is plain, answered or not. At most one node carries the current marker.
C20_ThreeClassesWhenHighlighted ==
  printed = Panel =>
    /\ OneLinePerNode
    /\ \A i \in DOMAIN panel.lines :
         LET l == panel.lines[i]
         IN IF panel.highlight # NoStep
            THEN /\ Current(l) <=> (l.node = panel.highlight)
                 /\ Answered(l) <=>
                      (l.node # panel.highlight /\ step[l.node].response # None)
                 /\ Answered(l) => l.text = step[l.node].response
                 /\ Plain(l) <=>
                      (l.node # panel.highlight /\ step[l.node].response = None)
            ELSE Plain(l)

\* The tree was rendered with a highlight and shows the three classes at
\* once: the current step, an answered step and a step not yet reached.
C20_Witness ==
  /\ printed = Panel
  /\ panel.highlight # NoStep
  /\ \E i, j, k \in DOMAIN panel.lines :
       /\ Current(panel.lines[i])
       /\ Answered(panel.lines[j])
       /\ Plain(panel.lines[k]) /\ panel.lines[k].node # Root

(* ------------------------------------------------------------------ *)
(* C21                                                                 *)
(* ------------------------------------------------------------------ *)
\* What a run of the tour depends on: the steps, State, the current step and
\* how the run ended, if it did.
ProgramData == <<step, state, node, exit_status, raised, tour_steps>>

\* C21: an interrupt at a step's prompt answered with "Continue" is
\* transparent. The interrupt and the tolerated interrupt of the menu change
\* nothing but the position in the menu, and "Continue" puts the run back at
\* the prompt of the same step with every step and every entry of State as
\* they were: the run goes on from the very state the uninterrupted run is
\* in, so it ends with the same State for the same answers.
C21_ContinueIsTransparent ==
  [][/\ event' = "interrupt" =>
          /\ pc = "run" /\ pc' = "menu"
          /\ UNCHANGED ProgramData
     /\ (event' = "menu_interrupt" /\ pc' = "menu") => UNCHANGED ProgramData
     /\ (pc = "menu" /\ event' = "menu" /\ action' = 1) =>
          /\ pc' = "run"
          /\ UNCHANGED ProgramData
          /\ ~step'[node'].completed
          /\ printed' = None]_vars

\* "Continue" was chosen at a step that had rejected an answer, with an
\* earlier step's answer in State: the step is at its prompt again.
C21_Witness ==
  /\ event = "menu" /\ action = 1
  /\ pc = "run"
  /\ ~step[node].completed
  /\ step[node].failures = 1
  /\ \E s \in Steps : s # node /\ step[s].completed /\ HasEntry(state, s)

(* ------------------------------------------------------------------ *)
(* C23                                                                 *)
(* ------------------------------------------------------------------ *)
\* C23: the value that Step.run() validates, stores in response and commits
\* to State is sanitize_input(prompt()): the answer itself for a step that
\* keeps the default sanitize_input, and for a path-typed step the answer
\* with surrounding whitespace stripped (and a leading "~" expanded).
C23_SanitizedAnswerIsUsed ==
  [][event' = "answer" =>
       LET k == KindOf(node)
           v == step'[node].response
       IN /\ ~IsPath(k) => v = raw'
          /\ IsPath(k) =>
               /\ v # " yes "
               /\ raw' = " yes " => v = "yes"
               /\ raw' = "~" => v = HomeDir
               /\ raw' \in Answers => v = raw'
          /\ step'[node].completed <=> v \in Valid(k)
          /\ step'[node].completed =>
               /\ HasEntry(state', node)
               /\ Entry(state', node) = Val(v)
          /\ ~step'[node].completed => state' = state]_vars

\* A path-typed step was answered with surrounding whitespace and the
\* stripped answer is its response and its entry in State.
C23_Witness ==
  \E s \in Steps :
    /\ IsPath(KindOf(s))
    /\ event = "answer"
    /\ raw = " yes "
    /\ step[s].completed
    /\ step[s].response = "yes"
    /\ Entry(state, s) = Val("yes")
    /\ node # s

(* ------------------------------------------------------------------ *)
(* C24                                                                 *)
(* ------------------------------------------------------------------ *)
\* C24: Step.run() does not handle an interrupt of its prompt: the
\* interrupt leaves Step.run() with the step as it was (not completed, same
\* response, same count of validation failures) and State unchanged; it is
\* Tour.run() that prints the notice and shows the recovery menu.
C24_RunDoesNotHandleInterrupt ==
  [][event' = "interrupt" =>
       /\ run_interrupted(World, node).exc = "KeyboardInterrupt"
       /\ run_interrupted(World, node).step = step
       /\ run_interrupted(World, node).state = state
       /\ ~step'[node].completed
       /\ step' = step
       /\ state' = state
       /\ pc' = "menu"
       /\ printed' = KeyboardInterrupt
       /\ raised' = None
       /\ exit_status' = exit_status]_vars

\* The prompt of a step that had rejected an answer was interrupted, with an
\* earlier answer in State: the menu is up and the step's counter is as it was.
C24_Witness ==
  /\ event = "interrupt"
  /\ pc = "menu"
  /\ attempt = 0
  /\ step[node].failures = 1
  /\ step[node].response = "bad"
  /\ ~step[node].completed
  /\ state[1] # EmptyState

(* ------------------------------------------------------------------ *)
(* C22                                                                 *)
(* ------------------------------------------------------------------ *)
\* The steps of the tree in the order Tour.run() visits them.
VisitOrder == PreOrder(step, Root)

ValidatedAndStored(s) ==
  /\ step[s].response # None
  /\ HasValidate(KindOf(s))
  /\ validate(KindOf(s), step[s].response)
  /\ HasEntry(state, s)
  /\ Entry(state, s) = Val(step[s].response)

C26_OnlyConsecutiveFailuresCount ==
  (pc = "exit" /\ printed = GivingUp) =>
    step[node].failures = step[node].streak

(* ------------------------------------------------------------------ *)
(* C27                                                                 *)
(* ------------------------------------------------------------------ *)
\* The class's effect() adds children for some answer.
HasEffect(k) == \E a \in RawAnswers : Effect(k, a) # <<>>

\* The classes of the children of step s, in order.
ChildKinds(s) ==
  [i \in 1 .. Len(step[s].children) |-> KindOf(step[s].children[i])]

\* The classes of the children the answer a of a step of class k implies.
ImpliedKinds(k, a) == [i \in 1 .. Len(Effect(k, a)) |-> Effect(k, a)[i].head]

\* Some step left the tree when its parent was undone.
Detached == {s \in Steps \ {Root} : s \notin Reach(Root)}

ReturnsAtTheEnd ==
  (pc # "returned" /\ pc' = "returned") <=>
    /\ pc = "run" /\ event' \in {"start", "answer"}
    /\ pc' \notin {"exit", "raised"}
    /\ node = Root \/ step'[node].completed
    /\ next(step', node) = NoStep

\* From some point on no prompt is interrupted.
FinitelyManyInterrupts == <>[][event' # "interrupt"]_vars

AddLists ==
  {<<StepItem(2)>>, <<StepItem(2), StepItem(3)>>,
   <<ListItem(4, <<StepItem(7)>>), StepItem(3)>>}

\* Between the step tables S0 and S1 the items were added under p: the
\* children of p are new Step objects of the items' classes in declared
\* order, followed by the children p had in S0 in the order they had.
AddedUnder(S0, S1, p, items) ==
  LET old == S0[p].children
      new == S1[p].children
      k == Len(items)
  IN /\ Len(new) = k + Len(old)
     /\ SubSeq(new, k + 1, Len(new)) = old
     /\ \A j \in 1 .. k :
          /\ new[j] \notin DOMAIN S0
          /\ S1[new[j]].kind = items[j].head
          /\ S1[new[j]].parent = p
     /\ \A i, j \in 1 .. k : i # j => new[i] # new[j]

\* C29: add_steps(steps, parent) makes the parent's children the newly added
\* steps in declared order followed by the parent's previous children in
\* their previous order, and changes the children of no older step but the
\* parent: in every state of a tour for every list of AddLists and every
\* parent, and for the steps each effect() adds while the tour runs.
C29_AddStepsPrepends ==
  /\ [](\A p \in Steps : \A items \in AddLists :
         LET S1 == add_steps(World, items, p).step
         IN /\ AddedUnder(step, S1, p, items)
            /\ \A q \in Steps \ {p} : S1[q].children = step[q].children)
  /\ [][event' = "answer" =>
         \A p \in Steps :
           AddedUnder(step, step', p,
                      IF p = node /\ ~step[p].completed /\ step'[p].completed
                      THEN Effect(KindOf(p), step'[p].response)
                      ELSE <<>>)]_vars

\* The effect of a step has just added two steps in front of the child the
\* step had since the tour was built; the first of them is current.
C29_Witness ==
  /\ event = "answer" /\ pc = "run"
  /\ node \in Inserted
  /\ LET s == step[node].parent
         c == step[s].children
     IN /\ Len(c) = 3
        /\ c[1] = node /\ c[2] \in Inserted /\ c[3] \notin Inserted
        /\ <<KindOf(c[1]), KindOf(c[2])>> = ImpliedKinds(KindOf(s), step[s].response)
        /\ \A i \in 1 .. 3 : ~step[c[i]].completed

(* ------------------------------------------------------------------ *)
(* C30                                                                 *)
(* ------------------------------------------------------------------ *)
RECURSIVE Flatten(_)
\* The classes of the steps of a list of steps, sublists opened, as declared.
Flatten(items) ==
  IF items = <<>> THEN <<>>
  ELSE <<items[1].head>> \o Flatten(items[1].rest) \o Flatten(Tail(items))

\* The classes of the steps of a list of steps, sublists not opened.
Heads(items) == [i \in 1 .. Len(items) |-> items[i].head]

\* C30: for a tour built from [[head, t1, ..., tn], last], head and last
\* are the children of the root in that order, t1..tn are the children of
\* head in declared order and have no children, and the tour visits head,
\* t1, ..., tn, last in that order: the completed steps are always exactly
\* those before the current one in that sequence.
C30_SublistUnderItsHead ==
  /\ Heads(tour_steps) = [i \in 1 .. Len(TopLevel) |-> KindOf(TopLevel[i])]
  /\ \A i \in 1 .. Len(TopLevel) :
       /\ step[TopLevel[i]].parent = Root
       /\ ChildKinds(TopLevel[i]) = Heads(tour_steps[i].rest)
       /\ \A c \in Reach(TopLevel[i]) \ {TopLevel[i]} :
            step[c].parent = TopLevel[i] /\ step[c].children = <<>>
  /\ [i \in 1 .. Len(VisitOrder) |-> KindOf(VisitOrder[i])]
       = <<RootKind>> \o Flatten(tour_steps)
  /\ \A i \in 2 .. Len(VisitOrder) :
       step[VisitOrder[i]].completed <=>
         \/ pc = "returned"
         \/ node # Root /\ i < IndexIn(VisitOrder, node)

\* In a tour [[head, t1, t2], last], head and t1 have been run, t2 is
\* current and last has still to be run.
C30_Witness ==
  /\ pc = "run"
  /\ Len(tour_steps[1].rest) = 2
  /\ LET h == TopLevel[1]
     IN /\ step[h].completed
        /\ step[step[h].children[1]].completed
        /\ node = step[h].children[2]
        /\ ~step[TopLevel[2]].completed

(* ------------------------------------------------------------------ *)
(* C31                                                                 *)
(* ------------------------------------------------------------------ *)
\* The heap after a new step of class k is bound in the current state.
Bound(k) ==
  determine_state([World EXCEPT !.step = Append(@, NewStep(k))], Len(step) + 1)

\* Binding a step of class k in the current state: an existing sub-scope of
\* its state_subset is reused with its entries, a missing one is created
\* empty, and nothing else in State changes.
BindsLazily(k) ==
  LET W1 == Bound(k)
      s == Len(step) + 1
      sub == Subset(k)
  IN IF sub = None
     THEN W1.state = state /\ W1.step[s].state = 1
     ELSE IF sub \in DOMAIN state[1]
     THEN W1.state = state /\ W1.step[s].state = state[1][sub].ref
     ELSE /\ Len(W1.state) = Len(state) + 1
          /\ W1.state[Len(W1.state)] = EmptyState
          /\ \A i \in 2 .. Len(state) : W1.state[i] = state[i]
          /\ DOMAIN W1.state[1] = DOMAIN state[1] \cup {sub}
          /\ \A key \in DOMAIN state[1] : W1.state[1][key] = state[1][key]
          /\ W1.state[1][sub] = Ref(Len(W1.state))
          /\ W1.step[s].state = Len(W1.state)

\* State holds no answer: the top level has only sub-scopes, all empty.
NoAnswers ==
  /\ \A key \in DOMAIN state[1] : state[1][key].ref # 0
  /\ \A i \in 2 .. Len(state) : state[i] = EmptyState

\* State is the State st the tour was given, and an empty sub-scope for
\* each state_subset of a step of the tour that st did not have.
SeedPlusEmptyScopes(st) ==
  /\ Len(state) >= Len(st)
  /\ \A i \in 2 .. Len(st) : state[i] = st[i]
  /\ \A i \in Len(st) + 1 .. Len(state) : state[i] = EmptyState
  /\ \A key \in DOMAIN st[1] : key \in DOMAIN state[1] /\ state[1][key] = st[1][key]
  /\ \A key \in DOMAIN state[1] \ DOMAIN st[1] :
       /\ state[1][key].ref > Len(st)
       /\ \E s \in Reach(Root) : Subset(KindOf(s)) = key

\* C31 (as stated): binding a step reuses an existing sub-scope with its
\* entries and creates an empty one only when the name is absent; after
\* construction and before any step has run, State contains no answers,
\* only empty sub-scopes.
C31_EmptyStateAfterConstruction ==
  /\ \A k \in Kinds : BindsLazily(k)
  /\ event = "init" => NoAnswers

\* C31 (amended): the same binding rule; after construction and before any
\* step has run, State is the State the tour was constructed with (empty by
\* default) with its entries intact, plus an empty sub-scope for each
\* state_subset it did not have.
C31_GivenStatePlusEmptyScopes ==
  /\ \A k \in Kinds : BindsLazily(k)
  /\ event = "init" => \E st \in Seeds : SeedPlusEmptyScopes(st)

\* A tour was constructed with a State that has the sub-scope dataset_0
\* with an answer in it: steps are bound to that sub-scope, and another
\* sub-scope was created empty.
C31_Witness ==
  /\ event = "init"
  /\ \E s \in SubsetSteps \cap Reach(Root) : state[step[s].state] # EmptyState
  /\ \E t \in SubsetSteps \cap Reach(Root) : state[step[t].state] = EmptyState

(* ------------------------------------------------------------------ *)
(* C32                                                                 *)
(* ------------------------------------------------------------------ *)
\* Control is outside the run() of step s: in the recovery menu, at another
\* step, or after Tour.run() returned.
OutsideRun(s) ==
  \/ pc = "menu"
  \/ pc \in {"run", "returned"} /\ node # s

\* C32: a step's response is the last accepted answer: whenever control is
\* outside the step's run(), its response is empty or an answer that its
\* validate accepts, never an answer that failed validation.
C32_ResponseIsAccepted ==
  \A s \in Steps :
    (OutsideRun(s) /\ HasValidate(KindOf(s))) =>
      \/ step[s].response = None
      \/ validate(KindOf(s), step[s].response)

(* ------------------------------------------------------------------ *)
(* C33                                                                 *)
(* ------------------------------------------------------------------ *)
\* The completed steps of the tree.
Completed == {s \in Reach(Root) : step[s].completed}

\* Step t is the completed step that comes last in visiting order, the
\* root if no step is completed.
LastCompleted(t) ==
  /\ t \in Completed \cup {Root}
  /\ \A c \in Completed : IndexIn(VisitOrder, c) <= IndexIn(VisitOrder, t)

\* "Go back" is chosen in the recovery menu.
GoBack == pc = "menu" /\ event' = "menu" /\ action' = 0

\* C33: the step "go back" targets is the step most recently completed
\* before the current one: when a step is completed it is the previous step
\* of the step run next, children its effect inserted included; "go back"
\* goes to the previous step of the current one, which is the last completed
\* step in visiting order, if it is reversible and stays otherwise; and an
\* insertion changes the previous step of no step visited so far.
C33_GoBackTargetsLastCompleted ==
  [][/\ (Accepted /\ pc' = "run") => prev(step', node') = node
     /\ GoBack =>
          /\ LastCompleted(prev(step, node))
          /\ node' = IF is_reversible(KindOf(prev(step, node)))
                     THEN prev(step, node) ELSE node
     /\ Len(step') > Len(step) =>
          \A s \in (Completed \cup {node}) \ {Root} :
            prev(step', s) = prev(step, s)]_vars

\* "Go back" from a top-level step has just gone to a step an effect had
\* inserted under the previous top-level step, and undone it.
C33_Witness ==
  /\ event = "menu" /\ action = 0 /\ pc = "run" /\ printed = None
  /\ node \in Inserted
  /\ step[node].parent # Root
  /\ ~step[node].completed
  /\ step[step[node].parent].completed
  /\ next(step, node) # NoStep
  /\ step[next(step, node)].parent = Root

(* ------------------------------------------------------------------ *)
(* C34                                                                 *)
(* ------------------------------------------------------------------ *)
\* Step s is the only step of the tree with its name in its scope.
UniqueName(s) ==
  \A t \in Reach(Root) :
    (t # s /\ step[t].state = step[s].state) => NameOf(t) # NameOf(s)

\* The entry under key in scope sc is not the same before and after.
EntryChanged(sc, key) ==
  \/ (key \in DOMAIN state[sc]) # (key \in DOMAIN state'[sc])
  \/ /\ key \in DOMAIN state[sc] /\ key \in DOMAIN state'[sc]
     /\ state'[sc][key] # state[sc][key]

\* Step a is the step whose run() or undo() acts in this transition.
Acting(a) ==
  \/ event' = "answer" /\ a = node
  \/ GoBack /\ a = prev(step, node)

\* C34 (as stated): step names are collision-checked within a tour: no two
\* steps reachable from the root that resolve to the same State scope have
\* the same name, so that no commit or undo of a step overwrites or deletes
\* the entry of another: every completed step has its own answer in State.
C34_NamesDoNotCollide ==
  /\ \A s, t \in Reach(Root) :
       (s # t /\ step[s].state = step[t].state) => NameOf(s) # NameOf(t)
  /\ \A s \in Reach(Root) :
       step[s].completed =>
         HasEntry(state, s) /\ Entry(state, s) = Val(step[s].response)

\* C34 (amended): names are not checked. An entry of State changes only
\* when a step with that name bound to that scope commits or is undone, so
\* a step whose name is unique in its scope keeps its own answer in State
\* while it is completed; steps with the same name in the same scope share
\* one entry.
C34_EntriesGoByName ==
  /\ [](\A s \in Reach(Root) :
          (UniqueName(s) /\ step[s].completed) =>
            HasEntry(state, s) /\ Entry(state, s) = Val(step[s].response))
  /\ [][/\ Len(state') = Len(state)
        /\ \A sc \in 1 .. Len(state) :
             \A key \in DOMAIN state[sc] \cup DOMAIN state'[sc] :
               EntryChanged(sc, key) =>
                 \E a \in Steps :
                   Acting(a) /\ step[a].state = sc /\ NameOf(a) = key]_vars

\* The tour returned: two steps with one name in one scope are completed
\* with different answers, and the entry holds the answer of the later one.
C34_Witness ==
  /\ pc = "returned"
  /\ \E s, t \in Reach(Root) :
       /\ s # t /\ step[s].state = step[t].state /\ NameOf(s) = NameOf(t)
       /\ IndexIn(VisitOrder, s) < IndexIn(VisitOrder, t)
       /\ step[s].response # step[t].response
       /\ Entry(state, t) = Val(step[t].response)
  /\ \E u \in Reach(Root) : UniqueName(u) /\ step[u].completed

(* ------------------------------------------------------------------ *)
(* C35                                                                 *)
(* ------------------------------------------------------------------ *)
\* The non-root steps that precede step n in visiting order.
Before(n) == {VisitOrder[i] : i \in 2 .. IndexIn(VisitOrder, n) - 1}

\* C35: at every point of Tour.run(), at a prompt or in the recovery menu,
\* the current step is in the tree and the completed steps are exactly the
\* non-root steps that precede it in pre-order: no step at or after the
\* current step is completed, and steps outside the tree are not either.
C35_CompletedArePrefix ==
  pc \in {"run", "menu"} =>
    /\ node \in Reach(Root)
    /\ {s \in Steps : step[s].completed} = Before(node)

\* In the recovery menu of a step an effect inserted, interrupted once more
\* in the menu, with completed steps before it and steps still to run after.
C35_Witness ==
  /\ pc = "menu" /\ attempt = 1
  /\ node \in Inserted
  /\ Before(node) # {}
  /\ IndexIn(VisitOrder, node) < Len(VisitOrder)
  /\ Detached # {}

C37_GoBackAtFirstStep ==
  /\ [](/\ ~step[Root].completed
        /\ step[Root].response = None
        /\ \A i \in 1 .. Len(state) : Name(RootKind) \notin DOMAIN state[i])
  /\ [][(GoBack /\ prev(step, node) = Root) =>
          /\ node' = node
          /\ pc' = "run"
          /\ UNCHANGED <<step, state, exit_status, raised>>
          /\ printed' = CannotBeUndone]_vars

\* "Go back" was chosen at the first step of the tour, which had rejected
\* an answer before the interrupt: the step is still current.
C37_Witness ==
  /\ event = "menu" /\ action = 0 /\ pc = "run"
  /\ printed = CannotBeUndone
  /\ prev(step, node) = Root
  /\ step[node].failures = 1
  /\ exit_status = 0 /\ raised = None

(* ------------------------------------------------------------------ *)
(* C38                                                                 *)
(* ------------------------------------------------------------------ *)
\* C38: the run of a step that accepts an answer invokes effect() exactly
\* once, however many rejected answers preceded it: the steps added are those
\* of one call, added once, and an effect that raises raises; the run that
\* rejects an answer invokes no effect: no step is added and no effect
\* raises.
C38_EffectOncePerCompletion ==
  [][event' = "answer" =>
       IF Accepted
       THEN LET items == Effect(KindOf(node), step'[node].response)
            IN /\ Len(step') = Len(step) + CountItems(items)
               /\ AddedUnder(step, step', node, items)
               /\ raised' = "OSError" <=>
                    EffectRaises(KindOf(node), step'[node].response)
       ELSE /\ Len(step') = Len(step)
            /\ \A s \in Steps : step'[s].children = step[s].children
            /\ raised' # "OSError"]_vars

\* A step rejected two answers and then accepted one: its effect has added
\* one step under it, which is current.
C38_Witness ==
  /\ event = "answer" /\ pc = "run"
  /\ node \in Inserted
  /\ step[node].parent # Root
  /\ LET s == step[node].parent
     IN /\ step[s].completed
        /\ step[s].failures = 2
        /\ step[s].children = <<node>>
        /\ Len(Effect(KindOf(s), step[s].response)) = 1

Recovering == pc = "menu" /\ event \in {"interrupt", "menu_interrupt"}

\* C40: the tolerance of the recovery menu for interrupts is per recovery:
\* the first interrupt of the menu in a recovery, however many interrupts
\* the menus of earlier recoveries saw, shows the menu again and ends
\* nothing; an interrupt of the menu ends the tour only when the interrupt
\* before it was in the menu of the same recovery; and a recovery that saw
\* one interrupt and then a choice other than "Exit" goes on at a prompt.
C40_TolerancePerRecovery ==
  /\ [](pc = "menu" => Recovering)
  /\ [][(pc = "menu" /\ event' = "menu_interrupt") =>
          IF event = "interrupt"
          THEN /\ pc' = "menu" /\ exit_status' = 0
               /\ UNCHANGED <<step, state, node, raised>>
          ELSE /\ event = "menu_interrupt"
               /\ pc' = "exit" /\ exit_status' = 1]_vars
  /\ [][(pc = "menu" /\ event = "menu_interrupt" /\ event' = "menu"
           /\ action' # 4) =>
          pc' = "run" /\ exit_status' = 0]_vars

\* A recovery has tolerated one interrupt of its menu after an earlier
\* recovery, which went back and took the children of a step out of the
\* tree, and after answers given since.
C40_Witness ==
  /\ pc = "menu" /\ event = "menu_interrupt"
  /\ attempt = 1
  /\ exit_status = 0
  /\ Detached # {}
  /\ \E s \in Reach(Root) \ {Root} : step[s].completed

====
